---------------------------- MODULE Spec2Model ----------------------------
(***************************************************************************)
(* Model of the thread pool of threadpoolpattern.cpp: the task queue       *)
(* tasks_, the mutex queue_mutex_, the condition variable cv_, the flag    *)
(* stop_, the worker loop worker::operator(), thread_pool::enqueue and     *)
(* the destructor thread_pool::~thread_pool.                               *)
(*                                                                         *)
(* Every statement of the three functions that touches shared state is one *)
(* action; a thread's position is its program counter.  Tasks are          *)
(* numbered 1, 2, ... in the order in which the enqueue calls start.       *)
(***************************************************************************)
EXTENDS Integers, Sequences, FiniteSets

\* Bounds of the model.
MaxThreads == 2      \* the pool sizes explored are 0..MaxThreads
NumProducers == 2    \* threads that call enqueue
MaxTasks == 2        \* enqueue calls made in one behaviour

VARIABLES
    threads,       \* the constructor's argument: workers_.size()
    stop_,         \* thread_pool::stop_
    tasks_,        \* thread_pool::tasks_, a sequence of task numbers
    queue_mutex_,  \* the thread that holds thread_pool::queue_mutex_, or NoThread
    pc,            \* pc[w]: position of worker w in worker::operator(), "none" if
                   \* workers_ holds no such thread
    task,          \* task[w]: the local `task` of worker w (0: none)
    e_pc,          \* e_pc[p]: position of producer p in thread_pool::enqueue
    f,             \* f[p]: the argument of producer p's running enqueue call (0: none)
    nextTask,      \* the number the next enqueue call gives its task
    d_pc,          \* position of the owner thread in thread_pool::~thread_pool
    joined,        \* number of workers the destructor has joined
    terminated,    \* std::terminate was called: the process is gone
    appended,      \* history: every task pushed on tasks_, in push order
    popped,        \* history: every task popped from tasks_, in pop order
    executed,      \* history: every task whose call task() returned, in that order
    beforeStop,    \* history: the tasks whose enqueue had returned when stop_ was set
    callsBeforeStop \* history: the number of enqueue calls made when stop_ was set

vars == <<threads, stop_, tasks_, queue_mutex_, pc, task, e_pc, f, nextTask,
          d_pc, joined, terminated, appended, popped, executed, beforeStop,
          callsBeforeStop>>

Slots == 1..MaxThreads       \* pc[w] = "none": no thread w was started
Workers == 1..threads
Producers == 1..NumProducers
NoThread == <<"none", 0>>
W(w) == <<"worker", w>>
P(p) == <<"producer", p>>

(***************************************************************************)
(* The containers and the primitives.                                      *)
(***************************************************************************)

\* A push_back that writes over the last element of a queue that is not
\* empty, as two unsynchronised pushes do: what PushBack must not be.
PushBackOverwrites(q, t) == IF Len(q) = 0 THEN <<t>> ELSE [q EXCEPT ![Len(q)] = t]

\* deque::push_back: the element goes to the back.
PushBack(q, t) == Append(q, t)

\* The last element in place of the first: what Front must not be.
FrontIsBack(q) == q[Len(q)]

\* deque::front: the first element.
Front(q) == Head(q)

\* A pop_front that leaves the element in the queue: what PopFront must not be.
PopFrontKeeps(q) == q

\* deque::pop_front: the first element is removed.
PopFront(q) == Tail(q)

\* deque::empty.
Empty(q) == Len(q) = 0

\* The workers suspended in cv_.wait(locker).
Waiters == {w \in Workers : pc[w] = "wait"}

\* stop_ is a plain bool that the destructor writes without holding
\* queue_mutex_ while the workers read it: a data race.  A read that races
\* with the write yields the new value or the old one.
StopRead == IF stop_ THEN {TRUE, FALSE} ELSE {FALSE}

\* The number of times t occurs in the sequence s.
Count(t, s) == Cardinality({i \in 1..Len(s) : s[i] = t})

\* The process runs: after std::terminate no thread takes a step.
Running == ~terminated

\* The tasks whose enqueue call has returned.
Returned == {t \in 1..(nextTask - 1) : \A p \in Producers : f[p] # t}

(***************************************************************************)
(* thread_pool::thread_pool: stop_ is false, the queue is empty and        *)
(* `threads` workers are started; a pool of zero workers is constructed    *)
(* like any other.                                                         *)
(***************************************************************************)
Init ==
    /\ threads \in 0..MaxThreads
    /\ stop_ = FALSE
    /\ tasks_ = <<>>
    /\ queue_mutex_ = NoThread
    /\ pc = [w \in Slots |-> IF w \in 1..threads THEN "lock" ELSE "none"]
    /\ task = [w \in Slots |-> 0]
    /\ e_pc = [p \in Producers |-> "idle"]
    /\ f = [p \in Producers |-> 0]
    /\ nextTask = 1
    /\ d_pc = "alive"
    /\ joined = 0
    /\ terminated = FALSE
    /\ appended = <<>>
    /\ popped = <<>>
    /\ executed = <<>>
    /\ beforeStop = {}
    /\ callsBeforeStop = 0

(***************************************************************************)
(* thread_pool::enqueue                                                    *)
(***************************************************************************)

\* A producer calls enqueue(f) on the pool, which is any time before the
\* destructor has returned: enqueue tests nothing, stop_ included.
EnqueueCall(p) ==
    /\ Running
    /\ e_pc[p] = "idle"
    /\ d_pc # "done"
    /\ nextTask <= MaxTasks
    /\ f' = [f EXCEPT ![p] = nextTask]
    /\ nextTask' = nextTask + 1
    /\ e_pc' = [e_pc EXCEPT ![p] = "lock"]
    /\ UNCHANGED <<threads, stop_, tasks_, queue_mutex_, pc, task, d_pc, joined,
                   terminated, appended, popped, executed, beforeStop,
                   callsBeforeStop>>

\* An enqueue that does not wait for the mutex: what EnqueueLock must not be.
EnqueueLockBarges(p) ==
    /\ Running
    /\ e_pc[p] = "lock"
    /\ queue_mutex_' = P(p)
    /\ e_pc' = [e_pc EXCEPT ![p] = "push"]
    /\ UNCHANGED <<threads, stop_, tasks_, pc, task, f, nextTask, d_pc, joined,
                   terminated, appended, popped, executed, beforeStop,
                   callsBeforeStop>>

\* unique_lock<mutex> lock(queue_mutex_);
EnqueueLock(p) ==
    /\ Running
    /\ e_pc[p] = "lock"
    /\ queue_mutex_ = NoThread
    /\ queue_mutex_' = P(p)
    /\ e_pc' = [e_pc EXCEPT ![p] = "push"]
    /\ UNCHANGED <<threads, stop_, tasks_, pc, task, f, nextTask, d_pc, joined,
                   terminated, appended, popped, executed, beforeStop,
                   callsBeforeStop>>

\* tasks_.push_back(function<void()>(f));
EnqueuePush(p) ==
    /\ Running
    /\ e_pc[p] = "push"
    /\ tasks_' = PushBack(tasks_, f[p])
    /\ appended' = Append(appended, f[p])
    /\ e_pc' = [e_pc EXCEPT ![p] = "notify"]
    /\ UNCHANGED <<threads, stop_, queue_mutex_, pc, task, f, nextTask, d_pc, joined,
                   terminated, popped, executed, beforeStop,
                   callsBeforeStop>>

\* An enqueue that does not notify: what EnqueueNotify must not be.
EnqueueNoNotify(p) ==
    /\ Running
    /\ e_pc[p] = "notify"
    /\ e_pc' = [e_pc EXCEPT ![p] = "unlock"]
    /\ UNCHANGED <<threads, stop_, tasks_, queue_mutex_, pc, task, f, nextTask, d_pc,
                   joined, terminated, appended, popped, executed, beforeStop,
                   callsBeforeStop>>

\* cv_.notify_one(): one of the suspended workers, if there is one, leaves
\* the wait set and has to take the mutex again.
EnqueueNotify(p) ==
    /\ Running
    /\ e_pc[p] = "notify"
    /\ \/ /\ Waiters = {}
          /\ pc' = pc
       \/ \E w \in Waiters : pc' = [pc EXCEPT ![w] = "relock"]
    /\ e_pc' = [e_pc EXCEPT ![p] = "unlock"]
    /\ UNCHANGED <<threads, stop_, tasks_, queue_mutex_, task, f, nextTask, d_pc, joined,
                   terminated, appended, popped, executed, beforeStop,
                   callsBeforeStop>>

\* The end of enqueue: the unique_lock is destroyed and the call returns.
EnqueueUnlock(p) ==
    /\ Running
    /\ e_pc[p] = "unlock"
    /\ queue_mutex_' = NoThread
    /\ e_pc' = [e_pc EXCEPT ![p] = "idle"]
    /\ f' = [f EXCEPT ![p] = 0]
    /\ UNCHANGED <<threads, stop_, tasks_, pc, task, nextTask, d_pc, joined,
                   terminated, appended, popped, executed, beforeStop,
                   callsBeforeStop>>

(***************************************************************************)
(* worker::operator()                                                      *)
(***************************************************************************)

\* unique_lock<mutex> locker(pool_.queue_mutex_);
WorkerLock(w) ==
    /\ Running
    /\ pc[w] = "lock"
    /\ queue_mutex_ = NoThread
    /\ queue_mutex_' = W(w)
    /\ pc' = [pc EXCEPT ![w] = "stop"]
    /\ UNCHANGED <<threads, stop_, tasks_, task, e_pc, f, nextTask, d_pc, joined,
                   terminated, appended, popped, executed, beforeStop,
                   callsBeforeStop>>

\* if (pool_.stop_) return;    the flag is read as true: the worker returns,
\* which destroys locker and so releases the mutex.
WorkerStopSet(w) ==
    /\ Running
    /\ pc[w] = "stop"
    /\ TRUE \in StopRead
    /\ queue_mutex_' = NoThread
    /\ pc' = [pc EXCEPT ![w] = "done"]
    /\ UNCHANGED <<threads, stop_, tasks_, task, e_pc, f, nextTask, d_pc, joined,
                   terminated, appended, popped, executed, beforeStop,
                   callsBeforeStop>>

\* if (pool_.stop_) return;    the flag is read as false.
WorkerStopClear(w) ==
    /\ Running
    /\ pc[w] = "stop"
    /\ FALSE \in StopRead
    /\ pc' = [pc EXCEPT ![w] = "empty"]
    /\ UNCHANGED <<threads, stop_, tasks_, queue_mutex_, task, e_pc, f, nextTask, d_pc,
                   joined, terminated, appended, popped, executed, beforeStop,
                   callsBeforeStop>>

\* The polling loop of the old code: on an empty queue the worker unlocks
\* and goes round the loop at once.  What WorkerWait must not be.
WorkerWaitPolls(w) ==
    /\ Running
    /\ pc[w] = "empty"
    /\ Empty(tasks_)
    /\ queue_mutex_' = NoThread
    /\ pc' = [pc EXCEPT ![w] = "lock"]
    /\ UNCHANGED <<threads, stop_, tasks_, task, e_pc, f, nextTask, d_pc, joined,
                   terminated, appended, popped, executed, beforeStop,
                   callsBeforeStop>>

\* while (pool_.tasks_.empty()) pool_.cv_.wait(locker);    the queue is
\* empty: wait releases the mutex and suspends the worker, in one step.
WorkerWait(w) ==
    /\ Running
    /\ pc[w] = "empty"
    /\ Empty(tasks_)
    /\ queue_mutex_' = NoThread
    /\ pc' = [pc EXCEPT ![w] = "wait"]
    /\ UNCHANGED <<threads, stop_, tasks_, task, e_pc, f, nextTask, d_pc, joined,
                   terminated, appended, popped, executed, beforeStop,
                   callsBeforeStop>>

\* A spurious wakeup of cv_.wait.
SpuriousWake(w) ==
    /\ Running
    /\ pc[w] = "wait"
    /\ pc' = [pc EXCEPT ![w] = "relock"]
    /\ UNCHANGED <<threads, stop_, tasks_, queue_mutex_, task, e_pc, f, nextTask, d_pc,
                   joined, terminated, appended, popped, executed, beforeStop,
                   callsBeforeStop>>

\* A wait under `if` in place of `while`: the woken worker does not look
\* at the queue again.  What WorkerRelock must not be.
WorkerRelockNoRecheck(w) ==
    /\ Running
    /\ pc[w] = "relock"
    /\ queue_mutex_ = NoThread
    /\ queue_mutex_' = W(w)
    /\ pc' = [pc EXCEPT ![w] = "pop"]
    /\ UNCHANGED <<threads, stop_, tasks_, task, e_pc, f, nextTask, d_pc, joined,
                   terminated, appended, popped, executed, beforeStop,
                   callsBeforeStop>>

\* The woken worker takes the mutex again before wait returns, and then
\* evaluates the loop condition again.
WorkerRelock(w) ==
    /\ Running
    /\ pc[w] = "relock"
    /\ queue_mutex_ = NoThread
    /\ queue_mutex_' = W(w)
    /\ pc' = [pc EXCEPT ![w] = "empty"]
    /\ UNCHANGED <<threads, stop_, tasks_, task, e_pc, f, nextTask, d_pc, joined,
                   terminated, appended, popped, executed, beforeStop,
                   callsBeforeStop>>

\* while (pool_.tasks_.empty()) ...    the queue is not empty: the loop ends.
WorkerNotEmpty(w) ==
    /\ Running
    /\ pc[w] = "empty"
    /\ ~Empty(tasks_)
    /\ pc' = [pc EXCEPT ![w] = "pop"]
    /\ UNCHANGED <<threads, stop_, tasks_, queue_mutex_, task, e_pc, f, nextTask, d_pc,
                   joined, terminated, appended, popped, executed, beforeStop,
                   callsBeforeStop>>

\* const auto task = pool_.tasks_.front(); pool_.tasks_.pop_front();
WorkerPop(w) ==
    /\ Running
    /\ pc[w] = "pop"
    /\ task' = [task EXCEPT ![w] = Front(tasks_)]
    /\ popped' = Append(popped, Front(tasks_))
    /\ tasks_' = PopFront(tasks_)
    /\ pc' = [pc EXCEPT ![w] = "unlock"]
    /\ UNCHANGED <<threads, stop_, queue_mutex_, e_pc, f, nextTask, d_pc, joined,
                   terminated, appended, executed, beforeStop,
                   callsBeforeStop>>

\* A worker that tests stop_ between the pop and the call and returns
\* without running the task: what WorkerUnlock must not be.
WorkerUnlockStops(w) ==
    /\ Running
    /\ pc[w] = "unlock"
    /\ queue_mutex_' = NoThread
    /\ pc' = [pc EXCEPT ![w] = IF stop_ THEN "done" ELSE "run"]
    /\ UNCHANGED <<threads, stop_, tasks_, task, e_pc, f, nextTask, d_pc, joined,
                   terminated, appended, popped, executed, beforeStop,
                   callsBeforeStop>>

\* The task is called with the mutex still held: what WorkerUnlock must
\* not be.
WorkerUnlockKeeps(w) ==
    /\ Running
    /\ pc[w] = "unlock"
    /\ pc' = [pc EXCEPT ![w] = "run"]
    /\ UNCHANGED <<threads, stop_, tasks_, queue_mutex_, task, e_pc, f, nextTask, d_pc,
                   joined, terminated, appended, popped, executed, beforeStop,
                   callsBeforeStop>>

\* locker.unlock();
WorkerUnlock(w) ==
    /\ Running
    /\ pc[w] = "unlock"
    /\ queue_mutex_' = NoThread
    /\ pc' = [pc EXCEPT ![w] = "run"]
    /\ UNCHANGED <<threads, stop_, tasks_, task, e_pc, f, nextTask, d_pc, joined,
                   terminated, appended, popped, executed, beforeStop,
                   callsBeforeStop>>

\* task();    the task returns: the worker goes round the loop, where the
\* local `task` is gone.
WorkerRun(w) ==
    /\ Running
    /\ pc[w] = "run"
    /\ executed' = Append(executed, task[w])
    /\ task' = [task EXCEPT ![w] = 0]
    /\ pc' = [pc EXCEPT ![w] = "lock"]
    /\ UNCHANGED <<threads, stop_, tasks_, queue_mutex_, e_pc, f, nextTask, d_pc, joined,
                   terminated, appended, popped, beforeStop,
                   callsBeforeStop>>

\* task();    the task throws: nothing in worker::operator() catches, the
\* exception leaves the thread's function and std::terminate ends the process.
WorkerRunThrows(w) ==
    /\ Running
    /\ pc[w] = "run"
    /\ terminated' = TRUE
    /\ pc' = [pc EXCEPT ![w] = "terminated"]
    /\ UNCHANGED <<threads, stop_, tasks_, queue_mutex_, task, e_pc, f, nextTask, d_pc,
                   joined, appended, popped, executed, beforeStop,
                   callsBeforeStop>>

(***************************************************************************)
(* thread_pool::~thread_pool                                               *)
(***************************************************************************)

\* stop_ = true;    written without the mutex, and nobody is notified.
DtorStop ==
    /\ Running
    /\ d_pc = "alive"
    /\ stop_' = TRUE
    /\ beforeStop' = Returned
    /\ callsBeforeStop' = nextTask - 1
    /\ d_pc' = "join"
    /\ UNCHANGED <<threads, tasks_, queue_mutex_, pc, task, e_pc, f, nextTask, joined,
                   terminated, appended, popped, executed>>

\* for (auto &thread : workers_) thread.join();    the next worker of
\* workers_ has returned from operator().
DtorJoin ==
    /\ Running
    /\ d_pc = "join"
    /\ joined < threads
    /\ pc[joined + 1] = "done"
    /\ joined' = joined + 1
    /\ UNCHANGED <<threads, stop_, tasks_, queue_mutex_, pc, task, e_pc, f, nextTask, d_pc,
                   terminated, appended, popped, executed, beforeStop,
                   callsBeforeStop>>

\* The loop over workers_ is over: the destructor returns.
DtorReturn ==
    /\ Running
    /\ d_pc = "join"
    /\ joined = threads
    /\ d_pc' = "done"
    /\ UNCHANGED <<threads, stop_, tasks_, queue_mutex_, pc, task, e_pc, f, nextTask, joined,
                   terminated, appended, popped, executed, beforeStop,
                   callsBeforeStop>>

(***************************************************************************)
(* The specifications.                                                     *)
(***************************************************************************)

Producer(p) ==
    \/ EnqueueCall(p)
    \/ EnqueueLock(p)
    \/ EnqueuePush(p)
    \/ EnqueueNotify(p)
    \/ EnqueueUnlock(p)

Worker(w) ==
    \/ WorkerLock(w)
    \/ WorkerStopSet(w)
    \/ WorkerStopClear(w)
    \/ WorkerWait(w)
    \/ SpuriousWake(w)
    \/ WorkerRelock(w)
    \/ WorkerNotEmpty(w)
    \/ WorkerPop(w)
    \/ WorkerUnlock(w)
    \/ WorkerRun(w)
    \/ WorkerRunThrows(w)

Dtor ==
    \/ DtorStop
    \/ DtorJoin
    \/ DtorReturn

Next ==
    \/ \E p \in Producers : Producer(p)
    \/ \E w \in Slots : Worker(w)
    \/ Dtor

Spec == Init /\ [][Next]_vars

(***************************************************************************)
(* Fair scheduling: a thread that can take its next step takes it.  An     *)
(* enqueue call that has started runs to its end, a worker goes on round   *)
(* its loop and a task that is called returns, the destructor goes on, a   *)
(* thread that asks for the mutex again and again gets it, and a worker    *)
(* that reads stop_ again and again after the write sees the write.        *)
(* Nothing makes a producer call enqueue, a wakeup happen spuriously or a  *)
(* task throw.                                                             *)
(***************************************************************************)
Fairness ==
    /\ \A p \in Producers :
          /\ SF_vars(EnqueueLock(p))
          /\ WF_vars(EnqueuePush(p) \/ EnqueueNotify(p) \/ EnqueueUnlock(p))
    /\ \A w \in Slots :
          /\ SF_vars(WorkerLock(w))
          /\ SF_vars(WorkerRelock(w))
          /\ SF_vars(WorkerStopSet(w))
          /\ WF_vars(WorkerStopClear(w) \/ WorkerWait(w) \/ WorkerNotEmpty(w))
          /\ WF_vars(WorkerPop(w) \/ WorkerUnlock(w))
          /\ WF_vars(WorkerRun(w))
    /\ WF_vars(Dtor)

FairSpec == Spec /\ Fairness

(***************************************************************************)
(* The properties.                                                         *)
(***************************************************************************)

\* The tasks that have been pushed on tasks_ by their enqueue call.
Pushed == {t \in 1..(nextTask - 1) :
              \A p \in Producers : f[p] = t => e_pc[p] \in {"notify", "unlock"}}

\* The tasks a worker holds in its local `task`.
Held(t) == {w \in Workers : task[w] = t}

\* C1: once the destructor has set stop_ and joins the workers, it
\* eventually returns (unless a throwing task has ended the process
\* before), for every pool size and every number of enqueued tasks.
C1_ShutdownReturns == (d_pc = "join") ~> (d_pc = "done" \/ terminated)

\* C2: when the destructor of a pool of at least one worker has returned,
\* every task whose enqueue call had returned before stop_ was set has been
\* executed exactly once and is no longer in tasks_.
C2_AllRunAtReturn ==
    (threads >= 1 /\ d_pc = "done") =>
        \A t \in beforeStop : Count(t, executed) = 1 /\ Count(t, tasks_) = 0

\* C3: no task is executed more than once: every task is popped from
\* tasks_ at most once, and the calls of it that have returned together
\* with the workers that hold it number at most one.
C3_AtMostOnce ==
    \A t \in 1..MaxTasks :
        /\ Count(t, popped) <= 1
        /\ Count(t, executed) + Cardinality(Held(t)) <= 1

C3_Witness == threads >= 2 /\ Len(executed) >= 2

\* C4: a task whose enqueue call was made after stop_ was set is never
\* appended to tasks_.
C4_RejectedAfterStop ==
    \A t \in 1..MaxTasks :
        (stop_ /\ t > callsBeforeStop) => Count(t, appended) = 0

\* C5: a worker returns from its loop only in a state in which stop_ is
\* true and tasks_ is empty.
C5_GracefulExit ==
    [][\A w \in Slots :
          (pc[w] # "done" /\ pc'[w] = "done") => (stop_ /\ Empty(tasks_))]_vars

\* C6: tasks leave tasks_ in the order in which they entered it: at any
\* time the tasks popped so far, followed by the tasks in the queue, are
\* the tasks appended so far, in the order in which they were appended.
C6_FIFO == popped \o tasks_ = appended

C6_Witness == Len(popped) >= 2

\* C7 as stated: at all times the number of enqueue calls that have
\* returned is the number of tasks in tasks_ plus the number of tasks popped.
C7_ReturnedCount == Cardinality(Returned) = Len(tasks_) + Len(popped)

\* C7, amended: no submission is lost or duplicated.  A task is in tasks_
\* or popped exactly once from the push_back of its enqueue call on and not
\* at all before, so the number of calls that have pushed is the number of
\* tasks in tasks_ plus the number popped; that is the number of calls
\* that have returned whenever no call is between its push_back and its
\* return; and when the queue is empty and no worker holds a task and no
\* call is running, the executed count is the number of enqueue calls.
C7_NoLostNoDup ==
    /\ \A t \in 1..MaxTasks :
          Count(t, popped \o tasks_) = (IF t \in Pushed THEN 1 ELSE 0)
    /\ Cardinality(Pushed) = Len(tasks_) + Len(popped)
    /\ Pushed = Returned => Cardinality(Returned) = Len(tasks_) + Len(popped)
    /\ (/\ Empty(tasks_)
        /\ \A w \in Slots : task[w] = 0
        /\ \A p \in Producers : e_pc[p] = "idle")
          => Len(executed) = nextTask - 1

\* Two calls overlapped (the second to start pushed first), a worker has
\* popped a task and a call is between its push_back and its return.
C7_Witness ==
    /\ appended = <<2, 1>>
    /\ Len(popped) = 1
    /\ \E p \in Producers : e_pc[p] = "unlock"

\* C8: with one worker, when tasks 1..k have been enqueued in that order,
\* each call returning before the next, and the pool has then been shut
\* down, the sequence of executed tasks is <<1, ..., k>>.
C8_OneWorkerRunsAll ==
    (/\ threads = 1
     /\ d_pc = "done"
     /\ beforeStop = 1..(nextTask - 1)
     /\ appended = [i \in 1..(nextTask - 1) |-> i])
        => executed = appended

\* C9: no pool of zero workers is constructed, so none holds an accepted
\* task that no worker will execute.
C9_NoEmptyPool == ~(threads = 0 /\ ~Empty(tasks_))

\* C10: when a worker's call task() ends, by a return or by a failure, the
\* worker is at the top of its loop and the process runs on.
C10_FailureContained ==
    [][\A w \in Slots :
          (pc[w] = "run" /\ pc'[w] # "run") => (pc'[w] = "lock" /\ ~terminated')]_vars

\* C11: stop_ is written only by a thread that holds queue_mutex_ at that
\* moment (the thread that shuts the pool down): when the flag changes, no
\* worker and no producer holds the mutex, and no worker is between its
\* test of stop_ and its wait.
C11_StopUnderLock ==
    [][stop_' # stop_ =>
          /\ \A w \in Slots : queue_mutex_ # W(w) /\ pc[w] # "empty"
          /\ \A p \in Producers : queue_mutex_ # P(p)]_vars

\* C12: signalling shutdown wakes all waiters: the destructor's signalling
\* is the one statement stop_ = true (nothing follows it but join), and the
\* step that takes it leaves no worker suspended in cv_.wait.
C12_ShutdownWakesAll ==
    [][(~stop_ /\ stop_') =>
          \A w \in Slots : pc[w] = "wait" => pc'[w] # "wait"]_vars

\* C13: a worker enters or re-enters cv_.wait only in a state in which
\* tasks_ is empty and stop_ is false.
C13_WaitOnlyIfNotStopped ==
    [][\A w \in Slots :
          (pc[w] # "wait" /\ pc'[w] = "wait") => (~stop_ /\ Empty(tasks_))]_vars

(***************************************************************************)
(* The pool while shutdown is never signalled: the destructor does not     *)
(* run, so stop_ stays false and no worker reads it as true.  The threads  *)
(* are scheduled fairly, as in Fairness.                                   *)
(***************************************************************************)
WorkerNeverStopped(w) ==
    \/ WorkerLock(w)
    \/ WorkerStopClear(w)
    \/ WorkerWait(w)
    \/ SpuriousWake(w)
    \/ WorkerRelock(w)
    \/ WorkerNotEmpty(w)
    \/ WorkerPop(w)
    \/ WorkerUnlock(w)
    \/ WorkerRun(w)
    \/ WorkerRunThrows(w)

NextNeverStopped ==
    \/ \E p \in Producers : Producer(p)
    \/ \E w \in Slots : WorkerNeverStopped(w)

\* The steps of a started enqueue call that holds the mutex, the steps of a
\* worker that neither a spurious wakeup nor a throwing task causes and
\* that do not take the mutex, and the step in which some thread takes
\* the free mutex.
EnqueueSteps(p) ==
    \/ EnqueuePush(p)
    \/ EnqueueNotify(p)
    \/ EnqueueUnlock(p)

WorkerSteps(w) ==
    \/ WorkerStopClear(w)
    \/ WorkerWait(w)
    \/ WorkerNotEmpty(w)
    \/ WorkerPop(w)
    \/ WorkerUnlock(w)
    \/ WorkerRun(w)

MutexTaken ==
    \/ \E p \in Producers : EnqueueLock(p)
    \/ \E w \in Slots : WorkerLock(w) \/ WorkerRelock(w)

\* Every thread that can take a step which does not wait for the mutex
\* takes it, and a free mutex that some thread asks for is taken by one of
\* them.  std::mutex promises no more: which thread gets it is not fair.
FairnessNeverStopped ==
    /\ \A p \in Producers : WF_vars(EnqueueSteps(p))
    /\ \A w \in Slots : WF_vars(WorkerSteps(w))
    /\ WF_vars(MutexTaken)

NeverStoppedSpec == Init /\ [][NextNeverStopped]_vars /\ FairnessNeverStopped

\* C14: no wakeup is lost.  In a pool of at least one worker whose shutdown
\* is never signalled, there is no state in which tasks_ is not empty and
\* every worker is suspended in cv_.wait while no notification is pending
\* (no producer stands before its notify_one), and under fair scheduling
\* every task in tasks_ is eventually executed, unless a throwing task ends
\* the process first.
C14_NoLostWakeup ==
    /\ [](~(/\ threads >= 1
            /\ ~stop_
            /\ ~Empty(tasks_)
            /\ \A w \in Workers : pc[w] = "wait"
            /\ \A p \in Producers : e_pc[p] # "notify"))
    /\ (threads >= 1 /\ ~Empty(tasks_))
          ~> (terminated \/ \A i \in 1..Len(appended) : Count(appended[i], executed) = 1)

\* The only worker is suspended in cv_.wait, a task has been pushed and
\* its producer has called notify_one.
C14_Witness ==
    /\ threads = 1
    /\ ~Empty(tasks_)
    /\ pc[1] = "relock"
    /\ \E p \in Producers : e_pc[p] = "unlock"

\* C15: a worker never removes an element from an empty queue: a worker
\* that stands before tasks_.front() / pop_front() holds queue_mutex_ and
\* tasks_ is not empty.
C15_PopNotEmpty ==
    \A w \in Slots : pc[w] = "pop" => (queue_mutex_ = W(w) /\ ~Empty(tasks_))

\* One task is in the queue, one worker is about to pop it and another
\* worker, woken as well, waits for the mutex.
C15_Witness ==
    /\ Len(tasks_) = 1
    /\ \E w, v \in Slots : pc[w] = "pop" /\ pc[v] = "relock"

\* C16: a task is executed outside the lock: a worker that runs a task
\* does not hold queue_mutex_.
C16_RunsUnlocked == \A w \in Slots : pc[w] = "run" => queue_mutex_ # W(w)

\* A worker runs a task while a producer holds the mutex.
C16_Witness ==
    \E w \in Slots, p \in Producers : pc[w] = "run" /\ queue_mutex_ = P(p)

\* C17: a worker that has popped a task runs that task: from the pop its
\* next steps are the unlock and the call of the same task, the call ends
\* with the task executed (or with the task's own failure), whatever stop_
\* is, and a worker returns from its loop only at the test of stop_ at the
\* top of the loop.
C17_PoppedTaskRuns ==
    [][\A w \in Slots :
          /\ (pc[w] = "unlock" /\ pc'[w] # "unlock")
                => (pc'[w] = "run" /\ task'[w] = task[w])
          /\ (pc[w] = "run" /\ pc'[w] # "run")
                => (terminated' \/ executed' = Append(executed, task[w]))
          /\ (pc[w] # "done" /\ pc'[w] = "done") => pc[w] = "stop"]_vars

\* stop_ is set and the destructor waits in join while a worker is in the
\* call of the task it has popped.
C17_Witness ==
    /\ stop_
    /\ d_pc = "join"
    /\ \E w \in Slots : pc[w] = "run" /\ task[w] # 0

\* The threads inside a critical section of queue_mutex_.
WorkersInside == {w \in Slots : pc[w] \in {"stop", "empty", "pop", "unlock"}}
ProducersInside == {p \in Producers : e_pc[p] \in {"push", "notify", "unlock"}}

\* C18: at most one thread, producer or worker, is inside a critical
\* section of queue_mutex_, and it is the thread that holds the mutex; so a
\* thread at push_back or at pop_front holds it.
C18_MutualExclusion ==
    /\ Cardinality(WorkersInside) + Cardinality(ProducersInside) <= 1
    /\ \A w \in WorkersInside : queue_mutex_ = W(w)
    /\ \A p \in ProducersInside : queue_mutex_ = P(p)
    /\ (WorkersInside = {} /\ ProducersInside = {}) => queue_mutex_ = NoThread

\* A producer is at its push_back while another producer and a worker wait
\* for the mutex.
C18_Witness ==
    /\ \E p, q \in Producers : e_pc[p] = "push" /\ e_pc[q] = "lock"
    /\ \E w \in Slots : pc[w] \in {"lock", "relock"}

\* C19: an idle worker does not busy-wait.  A worker that finds tasks_
\* empty releases queue_mutex_ and is suspended in cv_.wait; suspended, it
\* does not hold the mutex, and the only step that ends its suspension is a
\* wakeup (a notification or a spurious one), which neither takes the
\* mutex nor touches the queue.
C19_IdleWorkerBlocks ==
    [][\A w \in Slots :
          /\ (pc[w] = "empty" /\ Empty(tasks_) /\ pc'[w] # "empty")
                => (pc'[w] = "wait" /\ queue_mutex_' = NoThread)
          /\ pc[w] = "wait"
                => /\ queue_mutex_ # W(w)
                   /\ pc'[w] \in {"wait", "relock"}
                   /\ pc'[w] = "relock"
                         => (queue_mutex_' = queue_mutex_ /\ tasks_' = tasks_)]_vars

\* A worker is suspended, stop_ is false and a producer holds the mutex
\* that the worker has released.
C19_Witness ==
    /\ ~stop_
    /\ \E w \in Slots, p \in Producers : pc[w] = "wait" /\ queue_mutex_ = P(p)

====
